---- MODULE Spec2Model ----
(***************************************************************************)
(* Conway's Game of Life on the 50x50 grid of src/src/main.rs: the         *)
(* generation step (update_cells), its time gate (should_update_run) and   *)
(* the mouse editing of cells (spawn_cells_with_mouse), frame by frame.    *)
(***************************************************************************)
EXTENDS Integers, Sequences, FiniteSets

\* ------------------------------------------------------------ constants

GRID_HEIGHT == 50
GRID_WIDTH == 50

\* (SPEED * 1000.0) as u128, with SPEED = 0.5
SPEED_MILLIS == 500

\* WindowDescriptor { width: 500.0, height: 500.0 }
WINDOW_WIDTH == 500
WINDOW_HEIGHT == 500

NEIGHBORS ==
    << <<-1, -1>>, <<0, -1>>, <<1, -1>>,
       <<-1, 0>>, <<1, 0>>,
       <<-1, 1>>, <<0, 1>>, <<1, 1>> >>

\* ------------------------------------------------------------ bounds

\* generations executed in a run of the step specification
MaxGen == 2
\* frames executed in a run of the frame specification
MaxFrames == 3

\* ------------------------------------------------------------ integer casts

RECURSIVE PowMod(_, _, _)
\* b^e modulo m, never forming b^e
PowMod(b, e, m) == IF e = 0 THEN 1 % m ELSE (b * PowMod(b, e - 1, m)) % m

\* `v as i8` of a usize: the low 8 bits, read as two's complement
AsI8(v) == ((v + 128) % 256) - 128

\* a cast that leaves out the `% m` where the sum is not negative
AsUsizeNoMod(v, m) == IF v >= 0 THEN v ELSE (PowMod(2, 64, m) + (v % m)) % m

\* `(v as usize) % m` of an i8 v: the cast sign-extends, so a negative v is
\* 2^64 + v, and (2^64 + v) % m = ((2^64 % m) + (v % m)) % m
AsUsizeMod(v, m) == IF v >= 0 THEN v % m ELSE (PowMod(2, 64, m) + (v % m)) % m

\* nx = (dx + x as i8) as usize % GRID_WIDTH
NeighborX(dx, x) == AsUsizeMod(dx + AsI8(x), GRID_WIDTH)
\* ny = (dy + y as i8) as usize % GRID_HEIGHT
NeighborY(dy, y) == AsUsizeMod(dy + AsI8(y), GRID_HEIGHT)

\* the index tables of the eight offsets, one row per offset
nxTab == [k \in 1..8 |-> [x \in 0..(GRID_WIDTH - 1) |-> NeighborX(NEIGHBORS[k][1], x)]]
nyTab == [k \in 1..8 |-> [y \in 0..(GRID_HEIGHT - 1) |-> NeighborY(NEIGHBORS[k][2], y)]]

\* ------------------------------------------------------------ the grid

Xs == 0..(GRID_WIDTH - 1)
Ys == 0..(GRID_HEIGHT - 1)

\* StateGrid([[false; GRID_HEIGHT]; GRID_WIDTH])
EmptyGrid == [x \in Xs |-> [y \in Ys |-> FALSE]]

\* the grid whose live cells are the pairs of S
GridOf(S) == [x \in Xs |-> [y \in Ys |-> <<x, y>> \in S]]

\* a step that reads the grid it is writing
ReadGridInPlace(initial, current) == current

\* the grid read by the neighbour loop and by `alive`: the clone taken
\* before the loops, not the grid being written
ReadGrid(initial, current) == initial

\* num_alive_nb of cell (x, y): one increment per offset whose cell is alive
NumAliveNb(g, x, y) == Cardinality({k \in 1..8 : g[nxTab[k][x]][nyTab[k][y]]})

\* a rule that lets a live cell with three neighbours die
NewAliveCrowdedAtThree(alive, n) ==
    IF alive /\ n < 2 THEN FALSE
    ELSE IF alive /\ n >= 3 THEN FALSE
    ELSE IF ~alive /\ n = 3 THEN TRUE
    ELSE alive

\* the if / else-if chain deciding the value written
NewAlive(alive, n) ==
    IF alive /\ n < 2 THEN FALSE
    ELSE IF alive /\ n > 3 THEN FALSE
    ELSE IF ~alive /\ n = 3 THEN TRUE
    ELSE alive

\* the bounds check of an index expression g[x][y]
InBounds(g, x, y) == x \in DOMAIN g /\ y \in DOMAIN g[x]

\* the body of the inner loop for cell (x, y): acc holds the grid being
\* written and the counts computed so far
CellBody(initial, acc, x, y) ==
    LET src == ReadGrid(initial, acc.grid)
        n == NumAliveNb(src, x, y)
        alive == NewAlive(src[x][y], n)
    IN  [grid |-> [acc.grid EXCEPT ![x][y] = alive],
         nb |-> [acc.nb EXCEPT ![x][y] = n]]

RECURSIVE ForY(_, _, _, _, _)
\* the iterations y = lo, ..., hi - 1 of `for y in 0..GRID_HEIGHT`, in that
\* order, in column x (the range is halved to keep the evaluation shallow)
ForY(initial, acc, x, lo, hi) ==
    IF lo >= hi \/ ~InBounds(acc.grid, x, lo) THEN acc
    ELSE IF hi = lo + 1 THEN CellBody(initial, acc, x, lo)
    ELSE LET mid == (lo + hi) \div 2
         IN  ForY(initial, ForY(initial, acc, x, lo, mid), x, mid, hi)

RECURSIVE ForX(_, _, _, _)
\* the iterations x = lo, ..., hi - 1 of `for x in 0..GRID_WIDTH`, in that order
ForX(initial, acc, lo, hi) ==
    IF lo >= hi \/ ~InBounds(acc.grid, lo, 0) THEN acc
    ELSE IF hi = lo + 1 THEN ForY(initial, acc, lo, 0, GRID_HEIGHT)
    ELSE LET mid == (lo + hi) \div 2
         IN  ForX(initial, ForX(initial, acc, lo, mid), mid, hi)

NoCounts == [x \in Xs |-> [y \in Ys |-> 0]]

\* one execution of update_cells on grid g: the grid left in state_grid and
\* the num_alive_nb computed for every cell
UpdateCellsResult(g) == ForX(g, [grid |-> g, nb |-> NoCounts], 0, GRID_WIDTH)

\* ------------------------------------------------------------ state

VARIABLES
    state_grid,      \* StateGrid: state_grid[x][y], TRUE when cell (x, y) is alive
    paused,          \* Paused
    last_cell,       \* LastMouseCell, a pair of i32
    next_run_time,   \* the Local<u128> of should_update_run
    milis,           \* time.time_since_startup().as_millis() of the frame
    space_released,  \* keyboard_input.just_released(KeyCode::Space) in the frame
    other_key_released, \* keyboard_input.just_released(k) for a key k other than
                     \* Space in the frame
    left_pressed,    \* buttons.pressed(MouseButton::Left) in the frame
    cursor,          \* window.cursor_position(): <<>> for None, <<px, py>> for Some
    window_size,     \* <<window.width(), window.height()>> of the primary window
    prev_pressed,    \* left_pressed of the frame before
    prev_cursor,     \* cursor of the frame before
    pc,              \* "idle" between frames, "criteria" before the run criteria
                     \* of the frame, "systems" after it
    should_run,      \* what should_update_run returned in the frame
    done,            \* the systems of the Update stage that ran in the frame
    panicked,        \* an array index was out of bounds: the program is gone
    frames,          \* frames begun
    gen,             \* executions of update_cells
    initial_state_grid, \* the clone of the grid taken by the last update_cells
    nb,              \* num_alive_nb of every cell in the last update_cells
    tick_log,        \* milis of every evaluation of should_update_run
    step_log         \* milis of every evaluation that returned ShouldRun::Yes

vars ==
    << state_grid, paused, last_cell, next_run_time, milis, space_released,
       other_key_released, left_pressed, cursor, window_size, prev_pressed,
       prev_cursor, pc, should_run, done, panicked, frames, gen,
       initial_state_grid, nb, tick_log, step_log >>

\* a Local that starts one period after startup
NextRunTimeOnePeriod == SPEED_MILLIS

\* u128::default(), the value the Local starts with
DefaultNextRunTime == 0

\* the resources inserted by main, and the default of the Local
InitResources ==
    /\ paused = TRUE
    /\ last_cell = <<-1, -1>>
    /\ next_run_time = DefaultNextRunTime
    /\ milis = 0
    /\ space_released = FALSE
    /\ other_key_released = FALSE
    /\ left_pressed = FALSE
    /\ cursor = <<>>
    /\ window_size = <<WINDOW_WIDTH, WINDOW_HEIGHT>>
    /\ prev_pressed = FALSE
    /\ prev_cursor = <<>>
    /\ pc = "idle"
    /\ should_run = "No"
    /\ done = {}
    /\ panicked = FALSE
    /\ frames = 0
    /\ gen = 0
    /\ initial_state_grid = EmptyGrid
    /\ nb = NoCounts
    /\ tick_log = <<>>
    /\ step_log = <<>>

\* cursor positions in window pixels: the middle of cell (0, 0), the middle
\* of cell (1, 0), a cell and a half left of the window, half a cell right
\* of it; <<>> is a cursor outside the window (None)
CursorPositions == {<<>>, <<5, 5>>, <<15, 5>>, <<-15, 5>>, <<505, 5>>}

\* the cursor positions tried while the left button is up
IdleCursorPositions == {<<>>, <<5, 5>>}

\* An f32 is [neg, m, e], the value (-1)^neg * m * 2^e with a mantissa of 24
\* bits, 2^23 <= m < 2^24, or m = 0 for zero. The operations round to the
\* nearest f32, ties to the even mantissa, as the hardware does.

RECURSIVE Pow2(_)
Pow2(k) == IF k = 0 THEN 1 ELSE 2 * Pow2(k - 1)

\* the quotient q of a division by d that left r, rounded to nearest, ties
\* to even
RoundHalfEven(q, r, d) ==
    IF 2 * r > d \/ (2 * r = d /\ q % 2 = 1) THEN q + 1 ELSE q

\* a mantissa that the rounding carried to 2^24 is 2^23, one exponent up
F32Norm(neg, m, e) ==
    IF m = Pow2(24) THEN [neg |-> neg, m |-> Pow2(23), e |-> e + 1]
    ELSE [neg |-> neg, m |-> m, e |-> e]

RECURSIVE DivScale(_, _, _)
\* <<n1, d1, e1>> with n / d * 2^e = n1 / d1 * 2^e1 and d1 <= n1 < 2 * d1
DivScale(n, d, e) ==
    IF n < d THEN DivScale(2 * n, d, e - 1)
    ELSE IF n >= 2 * d THEN DivScale(n, 2 * d, e + 1)
    ELSE <<n, d, e>>

RECURSIVE DivBits(_, _, _, _)
\* k more bits of the quotient after the bits m, the remainder being r:
\* <<the bits, the remainder>>
DivBits(m, r, d, k) ==
    IF k = 0 THEN <<m, r>>
    ELSE IF 2 * r >= d THEN DivBits(2 * m + 1, 2 * r - d, d, k - 1)
    ELSE DivBits(2 * m, 2 * r, d, k - 1)

\* the f32 quotient n as f32 / d as f32 of two integers below 2^24, d > 0
F32Div(n, d) ==
    IF n = 0 THEN [neg |-> FALSE, m |-> 0, e |-> 0]
    ELSE LET a == IF n < 0 THEN -n ELSE n
             s == DivScale(a, d, 0)
             b == DivBits(1, s[1] - s[2], s[2], 23)
         IN  F32Norm(n < 0, RoundHalfEven(b[1], b[2], s[2]), s[3] - 23)

RECURSIVE MulShift(_, _)
\* the least s >= k with p / 2^s < 2^24
MulShift(p, k) == IF p \div Pow2(k) < Pow2(24) THEN k ELSE MulShift(p, k + 1)

\* the f32 product v * c as f32 of an f32 and an integer c, 1 <= c < 128
F32Mul(v, c) ==
    IF v.m = 0 THEN v
    ELSE LET p == v.m * c
             s == MulShift(p, 0)
         IN  F32Norm(v.neg, RoundHalfEven(p \div Pow2(s), p % Pow2(s), Pow2(s)),
                     v.e + s)

\* the integer part of the magnitude of an f32 below 2^31
F32Trunc(v) ==
    IF v.m = 0 \/ v.e < -24 THEN 0
    ELSE IF v.e >= 0 THEN v.m * Pow2(v.e)
    ELSE v.m \div Pow2(-v.e)

\* `v as i32` of an f32 of magnitude below 2^31: the fraction is dropped
AsI32(v) == IF v.neg THEN -F32Trunc(v) ELSE F32Trunc(v)

\* `v as usize` of an f32 below 2^31: the fraction is dropped and a negative
\* value becomes 0
AsUsize(v) == IF v.neg THEN 0 ELSE F32Trunc(v)

\* x = position.x as f32 / window.width() as f32 * GRID_WIDTH as f32 and
\* y likewise, for the cursor position cur in a window of size size
CellF32(cur, size) ==
    << F32Mul(F32Div(cur[1], size[1]), GRID_WIDTH),
       F32Mul(F32Div(cur[2], size[2]), GRID_HEIGHT) >>

\* x as i32, y as i32 of a cursor position
CellI32(cur, size) ==
    << AsI32(CellF32(cur, size)[1]), AsI32(CellF32(cur, size)[2]) >>

\* x as usize, y as usize of a cursor position
CellUsize(cur, size) ==
    << AsUsize(CellF32(cur, size)[1]), AsUsize(CellF32(cur, size)[2]) >>

\* the sizes of the window: as the WindowDescriptor of main makes it, and
\* resized to twice that
StartupWindowSizes == {<<WINDOW_WIDTH, WINDOW_HEIGHT>>}
WindowSizes == StartupWindowSizes \cup {<<2 * WINDOW_WIDTH, 2 * WINDOW_HEIGHT>>}

\* the cursor positions tried where the window is resized: the middle of cell
\* (0, 0) at either size, and a position outside the window as made and
\* inside the resized one
ResizeCursorPositions == {<<>>, <<5, 5>>, <<505, 5>>}

\* the casts of lines 199-202, evaluated once for the cursor positions and
\* window sizes tried
CellTable ==
    [cur \in CursorPositions \ {<<>>} |->
        [size \in WindowSizes |->
            [i32 |-> CellI32(cur, size), usize |-> CellUsize(cur, size)]]]

\* x as i32, y as i32 (i32) and x as usize, y as usize (usize) of a cursor
\* position, looked up where they were evaluated already
PointerCell(cur, size) ==
    IF cur \in DOMAIN CellTable /\ size \in WindowSizes THEN CellTable[cur][size]
    ELSE [i32 |-> CellI32(cur, size), usize |-> CellUsize(cur, size)]

\* the cells the cursor positions can toggle, and the grids made of them
ClickCells ==
    {c \in {CellUsize(cur, size) : cur \in CursorPositions \ {<<>>},
                                   size \in WindowSizes} :
        c[1] \in Xs /\ c[2] \in Ys}
ClickGrids == {GridOf(S) : S \in SUBSET ClickCells}

\* update_cells on the grids the mouse can draw, evaluated once
StepTable == [g \in ClickGrids |-> UpdateCellsResult(g)]

\* UpdateCellsResult(g), looked up where it was evaluated already
StepResult(g) == IF g \in ClickGrids THEN StepTable[g] ELSE UpdateCellsResult(g)

\* state_grid and the counts after one execution of update_cells
ApplyUpdateCells ==
    LET r == StepResult(state_grid)
    IN  /\ initial_state_grid' = state_grid
        /\ state_grid' = r.grid
        /\ nb' = r.nb
        /\ gen' = gen + 1

\* ------------------------------------------------------------ the step alone

\* coordinates at which the starting patterns are anchored: both sides of the
\* seam between 49 and 0, the interior, and the column that 2^64 - 1 maps to
AnchorCoords == {0, 1, 15, 25, 48, 49}

Single == {<<0, 0>>}
Block == {<<0, 0>>, <<1, 0>>, <<0, 1>>, <<1, 1>>}
Blinker == {<<0, 0>>, <<1, 0>>, <<2, 0>>}
\* a full 3x3 square and a lone cell three cells to its right
Crowd == {<<i, j>> : i \in 0..2, j \in 0..2} \cup {<<5, 0>>}
Shapes == {Single, Block, Blinker, Crowd}

\* shape s with its origin at (ax, ay), wrapped around the torus
Place(s, ax, ay) == {<<(ax + c[1]) % GRID_WIDTH, (ay + c[2]) % GRID_HEIGHT>> : c \in s}

StartGrids == {GridOf(Place(s, ax, ay)) : s \in Shapes, ax \in AnchorCoords, ay \in AnchorCoords}

InitStep ==
    /\ state_grid \in StartGrids
    /\ InitResources

\* update_cells, applied to the grid as a function of it
Step ==
    /\ gen < MaxGen
    /\ ApplyUpdateCells
    /\ UNCHANGED << paused, last_cell, next_run_time, milis, space_released,
                    other_key_released, left_pressed, cursor, window_size,
                    prev_pressed,
                    prev_cursor, pc, should_run, done, panicked, frames,
                    tick_log, step_log >>

NextStep == Step

SpecStep == InitStep /\ [][NextStep]_vars

\* ------------------------------------------------------------ the frames

\* elapsed milliseconds between two frames
Deltas == {250, 350}

\* a criteria that forgets the pause flag
IsDueIgnoringPause(p, now, next) == now > next

\* a criteria that answers Yes on the millisecond the step falls due
IsDueAtEquality(p, now, next) == ~p /\ now >= next

\* the condition under which should_update_run answers ShouldRun::Yes
IsDue(p, now, next) == ~p /\ now > next

\* a schedule that counts on from the time the step fell due
NextRunTimeCatchUp(now, next) == next + SPEED_MILLIS

\* the value assigned to next_run_time when a step is due
NextRunTime(now, next) == now + SPEED_MILLIS

\* every system of the Update stage that has to run in the frame has run
FrameComplete ==
    /\ pc = "systems"
    /\ "spawn_cells_with_mouse" \in done
    /\ should_run = "Yes" => "update_cells" \in done

\* the engine begins a frame: Time, the Input resources and the window are
\* updated; a key other than Space is released in the frame or not as keys
\* allows, a held button comes with a cursor position of held, and the window
\* has a size of sizes
FrameInputs(keys, held, sizes) ==
    /\ ~panicked
    /\ pc = "idle" \/ FrameComplete
    /\ frames < MaxFrames
    /\ \E dt \in Deltas, sp \in BOOLEAN, key \in keys, lp \in BOOLEAN,
          cur \in CursorPositions, size \in sizes :
          /\ IF lp THEN cur \in held ELSE cur \in IdleCursorPositions
          /\ window_size' = size
          /\ milis' = milis + dt
          /\ space_released' = sp
          /\ other_key_released' = key
          /\ left_pressed' = lp
          /\ cursor' = cur
    /\ prev_pressed' = left_pressed
    /\ prev_cursor' = cursor
    /\ pc' = "criteria"
    /\ should_run' = "No"
    /\ done' = {}
    /\ frames' = frames + 1
    /\ UNCHANGED << state_grid, paused, last_cell, next_run_time, panicked,
                    gen, initial_state_grid, nb, tick_log, step_log >>

\* a frame in which Space is the only key that may be released and the
\* window keeps the size it was made with
BeginFrame == FrameInputs({FALSE}, CursorPositions, StartupWindowSizes)

\* a frame in which any key may be released and the window may be resized
BeginFrameAnyKey == FrameInputs(BOOLEAN, ResizeCursorPositions, WindowSizes)

\* a Space release that only ever resumes
PausedAfterSpaceResumeOnly(p, released) == IF released THEN FALSE ELSE p

\* Paused after `if just_released(Space) { paused.0 = !paused.0 }`
PausedAfterSpace(p, released) == IF released THEN ~p ELSE p

\* a due-time test that reads the flag as it was before the Space release
PausedBeforeSpace(before, after) == before

\* the pause flag read by the due-time test of line 181: the flag as the
\* Space release of the frame left it
PausedAtDueTest(before, after) == after

\* the run criteria of the system set holding update_cells
should_update_run ==
    /\ ~panicked
    /\ pc = "criteria"
    /\ LET p == PausedAfterSpace(paused, space_released)
       IN  /\ paused' = p
           /\ IF IsDue(PausedAtDueTest(paused, p), milis, next_run_time)
              THEN /\ next_run_time' = NextRunTime(milis, next_run_time)
                   /\ should_run' = "Yes"
                   /\ step_log' = Append(step_log, milis)
              ELSE /\ should_run' = "No"
                   /\ UNCHANGED << next_run_time, step_log >>
    /\ tick_log' = Append(tick_log, milis)
    /\ pc' = "systems"
    /\ UNCHANGED << state_grid, last_cell, milis, space_released,
                    other_key_released, left_pressed, cursor, window_size,
                    prev_pressed,
                    prev_cursor, done, panicked, frames, gen,
                    initial_state_grid, nb >>

\* the system update_cells, run when the criteria answered Yes
update_cells ==
    /\ ~panicked
    /\ pc = "systems"
    /\ should_run = "Yes"
    /\ "update_cells" \notin done
    /\ ApplyUpdateCells
    /\ done' = done \cup {"update_cells"}
    /\ UNCHANGED << paused, last_cell, next_run_time, milis, space_released,
                    other_key_released, left_pressed, cursor, window_size,
                    prev_pressed,
                    prev_cursor, pc, should_run, panicked, frames, tick_log,
                    step_log >>

\* a system that edits under the pointer whether the button is held or not
MouseActiveOnHover(pressed, cur) == cur # <<>>

\* `if buttons.pressed(MouseButton::Left)` and `if let Some(position)`
MouseActive(pressed, cur) == pressed /\ cur # <<>>

\* an edit that makes the cell alive whatever it was
ToggledAlive(g, x, y) == [g EXCEPT ![x][y] = TRUE]

\* the grid after state_grid.0[x][y] = !state_grid.0[x][y]
Toggled(g, x, y) == [g EXCEPT ![x][y] = ~g[x][y]]

\* the system spawn_cells_with_mouse
spawn_cells_with_mouse ==
    /\ ~panicked
    /\ pc = "systems"
    /\ "spawn_cells_with_mouse" \notin done
    /\ done' = done \cup {"spawn_cells_with_mouse"}
    /\ IF MouseActive(left_pressed, cursor)
       THEN LET cell == PointerCell(cursor, window_size)
                xi == cell.i32[1]
                yi == cell.i32[2]
                xu == cell.usize[1]
                yu == cell.usize[2]
            IN  IF last_cell[1] # xi \/ last_cell[2] # yi
                THEN IF InBounds(state_grid, xu, yu)
                     THEN /\ state_grid' = Toggled(state_grid, xu, yu)
                          /\ last_cell' = <<xi, yi>>
                          /\ UNCHANGED panicked
                     ELSE /\ panicked' = TRUE
                          /\ UNCHANGED << state_grid, last_cell >>
                ELSE UNCHANGED << state_grid, last_cell, panicked >>
       ELSE UNCHANGED << state_grid, last_cell, panicked >>
    /\ UNCHANGED << paused, next_run_time, milis, space_released,
                    other_key_released, left_pressed, cursor, window_size,
                    prev_pressed,
                    prev_cursor, pc, should_run, frames, gen,
                    initial_state_grid, nb, tick_log, step_log >>

Init ==
    /\ state_grid = EmptyGrid
    /\ InitResources

Next ==
    \/ BeginFrame
    \/ should_update_run
    \/ update_cells
    \/ spawn_cells_with_mouse

Spec == Init /\ [][Next]_vars

\* the frames with all of the keyboard
NextKeys ==
    \/ BeginFrameAnyKey
    \/ should_update_run
    \/ update_cells
    \/ spawn_cells_with_mouse

SpecKeys == Init /\ [][NextKeys]_vars

\* ============================================================ claims

\* the live cells among the eight neighbours of (x, y) on the torus
TorusCount(g, x, y) ==
    Cardinality({k \in 1..8 :
        g[(x + NEIGHBORS[k][1]) % GRID_WIDTH][(y + NEIGHBORS[k][2]) % GRID_HEIGHT]})

\* C1: neighbour addressing is toroidal: the count update_cells computes for
\* every cell is the number of live cells among ((x+dx) mod 50, (y+dy) mod 50)
\* of the grid before the step, so (0, 0) counts a live (49, 49)
C1_ToroidalNeighbours ==
    gen > 0 =>
        \A x \in Xs, y \in Ys : nb[x][y] = TorusCount(initial_state_grid, x, y)

\* C2: a step is synchronous: every cell written is the rule applied to the
\* liveness and the neighbour count of the grid as it was before the step
C2_SynchronousUpdate ==
    gen > 0 =>
        \A x \in Xs, y \in Ys :
            state_grid[x][y] =
                NewAlive(initial_state_grid[x][y],
                         NumAliveNb(initial_state_grid, x, y))

\* a step has run in which a cell changed next to a cell that stayed alive, so
\* a step reading its own writes would have counted differently
C2_Witness ==
    /\ gen > 0
    /\ \E x \in Xs, y \in Ys :
          /\ state_grid[x][y] /\ initial_state_grid[x][y]
          /\ NumAliveNb(state_grid, x, y) # NumAliveNb(initial_state_grid, x, y)

\* Conway's rule as a table
Conway(alive, n) ==
    CASE alive /\ (n < 2 \/ n > 3) -> FALSE
      [] alive /\ (n = 2 \/ n = 3) -> TRUE
      [] ~alive /\ n = 3 -> TRUE
      [] ~alive /\ n # 3 -> FALSE

\* C3: the value written for every cell is Conway's rule of its liveness
\* before the step and the neighbour count computed for it
C3_ConwayRule ==
    gen > 0 =>
        \A x \in Xs, y \in Ys :
            state_grid[x][y] = Conway(initial_state_grid[x][y], nb[x][y])

\* a step in which every case of the rule occurred: a death of each kind, a
\* survival with two and with three neighbours, a birth, a cell left dead
C3_Witness ==
    /\ gen > 0
    /\ \E x \in Xs, y \in Ys : initial_state_grid[x][y] /\ nb[x][y] < 2 /\ ~state_grid[x][y]
    /\ \E x \in Xs, y \in Ys : initial_state_grid[x][y] /\ nb[x][y] > 3 /\ ~state_grid[x][y]
    /\ \E x \in Xs, y \in Ys : initial_state_grid[x][y] /\ nb[x][y] = 3 /\ state_grid[x][y]
    /\ \E x \in Xs, y \in Ys : ~initial_state_grid[x][y] /\ nb[x][y] = 3 /\ state_grid[x][y]
    /\ \E x \in Xs, y \in Ys : ~initial_state_grid[x][y] /\ nb[x][y] = 2 /\ ~state_grid[x][y]

\* ------------------------------------------------------------ the scheduler

\* C4: while Paused is true no step runs, whatever the elapsed time: the
\* criteria does not answer Yes and update_cells does not run in the frame
C4_NoStepWhilePaused ==
    paused => should_run = "No" /\ "update_cells" \notin done

\* a frame evaluated while paused, after an earlier step, later than the time
\* the next step was due
C4_Witness ==
    /\ paused /\ ~space_released
    /\ FrameComplete
    /\ step_log # <<>>
    /\ milis > next_run_time

\* should_update_run is taking its step of the frame
CriteriaStep == pc = "criteria" /\ pc' = "systems"

\* C5: while running, a step is executed in a frame exactly when
\* now >= next_due_time, the frame where they are equal included, and
\* next_due_time then becomes now + period
C5_StepWhenDue ==
    [][(CriteriaStep /\ ~paused') =>
          /\ should_run' = "Yes" <=> milis >= next_run_time
          /\ should_run' = "Yes" => next_run_time' = milis + SPEED_MILLIS]_vars

\* C5 as amended: while running, a step is executed in a frame exactly when
\* now > next_run_time, and next_run_time then becomes now + period; when
\* now <= next_run_time no step occurs and next_run_time stays
C5_StepWhenOverdue ==
    [][(CriteriaStep /\ ~paused') =>
          /\ should_run' = "Yes" <=> milis > next_run_time
          /\ should_run' = "Yes" => next_run_time' = milis + SPEED_MILLIS
          /\ should_run' = "No" => next_run_time' = next_run_time]_vars

\* a frame evaluated while running on the millisecond the step fell due
C5_Witness ==
    /\ pc = "systems" /\ ~paused
    /\ step_log # <<>>
    /\ milis = next_run_time
    /\ should_run = "No"

\* the criteria was evaluated at half a period and then at 1.2 periods, the
\* simulation unpaused at both evaluations
C6_Scenario ==
    /\ pc = "systems"
    /\ tick_log = << SPEED_MILLIS \div 2, (12 * SPEED_MILLIS) \div 10 >>
    /\ ~paused /\ ~space_released

\* C6: from the initial scheduler state, unpaused, ticks at 0.5 and 1.2
\* periods execute exactly one step, at the second tick
C6_OneStepAtSecondTick ==
    C6_Scenario => step_log = << (12 * SPEED_MILLIS) \div 10 >>

\* C6 as amended: the one step is scheduled at the first tick, and it is the
\* one generation executed
C6_OneStepAtFirstTick ==
    C6_Scenario => step_log = << SPEED_MILLIS \div 2 >> /\ gen = 1

\* both ticks of the scenario were evaluated and the frame of the second is
\* over, one generation executed in all
C6_Witness == C6_Scenario /\ FrameComplete /\ gen = 1

\* C7: pausing accumulates no steps: next_run_time moves only when a step is
\* executed (it is the time of the last step plus the period, whatever was
\* evaluated while paused), a Yes runs update_cells at most once, and two
\* steps are never less than a period apart
C7_NoCatchUp ==
    /\ next_run_time =
          IF step_log = <<>> THEN DefaultNextRunTime
          ELSE step_log[Len(step_log)] + SPEED_MILLIS
    /\ gen <= Len(step_log)
    /\ \A i \in 1..(Len(step_log) - 1) :
          step_log[i + 1] - step_log[i] >= SPEED_MILLIS

\* a step ran, the simulation was paused, and the frame that resumed it ran
\* the second step
C7_Witness ==
    /\ FrameComplete
    /\ space_released /\ ~paused
    /\ should_run = "Yes"
    /\ Len(step_log) = 2
    /\ gen = 2

\* ------------------------------------------------------------ the mouse

\* spawn_cells_with_mouse is taking its step of the frame
SpawnStep ==
    /\ "spawn_cells_with_mouse" \notin done
    /\ "spawn_cells_with_mouse" \in done'

\* the pair c of i32 is a cell of the grid
InGrid(c) == c[1] \in Xs /\ c[2] \in Ys

\* the cell (x as i32, y as i32) the pointer maps to in the frame, and the
\* cell it mapped to in the frame before (in a window of the same size)
CursorCell == PointerCell(cursor, window_size).i32
PrevCursorCell == PointerCell(prev_cursor, window_size).i32

\* the left button is held and the pointer maps to a cell of the grid
HeldOnCell == left_pressed /\ cursor # <<>> /\ InGrid(CursorCell)

\* the frame before, the button was held with the pointer on the same cell
SameCellHeldBefore ==
    /\ prev_pressed /\ prev_cursor # <<>>
    /\ PrevCursorCell = CursorCell

\* the step flips the cell the pointer maps to
TogglesCell ==
    LET c == CursorCell
    IN  state_grid'[c[1]][c[2]] # state_grid[c[1]][c[2]]

\* C8: while the button stays held on one cell the cell is toggled in the
\* first of those frames and in no other; a cell entered while held is
\* toggled on entry
C8_ToggleOncePerCell ==
    [][(SpawnStep /\ HeldOnCell) => (TogglesCell <=> ~SameCellHeldBefore)]_vars

\* C9: a cell toggled by a hold, the button released, the button pressed
\* again on that cell with no other cell visited: the cell is toggled again
C9_RearmOnRelease ==
    [][(SpawnStep /\ HeldOnCell /\ ~prev_pressed /\ last_cell = CursorCell)
          => TogglesCell]_vars

\* C10: a held pointer that maps outside the grid is rejected: no cell
\* changes and no array index is out of bounds
C10_OutOfRangeRejected ==
    [][(SpawnStep /\ left_pressed /\ cursor # <<>> /\ ~InGrid(CursorCell))
          => state_grid' = state_grid /\ ~panicked']_vars

\* ------------------------------------------------------------ frame ordering

\* update_cells is taking its step of the frame
UpdateCellsStep ==
    /\ "update_cells" \notin done
    /\ "update_cells" \in done'

\* spawn_cells_with_mouse toggles a cell of the grid when it runs on this state
MouseToggleDue ==
    /\ left_pressed /\ cursor # <<>>
    /\ last_cell # CursorCell
    /\ InBounds(state_grid, PointerCell(cursor, window_size).usize[1],
                             PointerCell(cursor, window_size).usize[2])

\* C11: in a frame with a mouse toggle and a due step the toggle is applied
\* first: when update_cells takes its snapshot no toggle of the frame is
\* still to come
C11_ToggleBeforeStep ==
    [][(UpdateCellsStep /\ "spawn_cells_with_mouse" \notin done)
          => ~MouseToggleDue]_vars

\* ------------------------------------------------------------ patterns

\* the live cells of grid g
Alive(g) == {c \in Xs \X Ys : g[c[1]][c[2]]}

\* the placement of shape s whose live cells are exactly those of g, if any
IsPlaced(s, g) ==
    LET a == Alive(g)
    IN  /\ Cardinality(a) = Cardinality(s)
        /\ \E c \in a : a = Place(s, c[1], c[2])

\* C12: a 2x2 block placed anywhere on the otherwise dead grid, the seam
\* between 49 and 0 included, is left unchanged by update_cells
C12_BlockStillLife ==
    (gen > 0 /\ IsPlaced(Block, initial_state_grid))
        => state_grid = initial_state_grid

\* the vertical three-cell column through the middle cell of a horizontal
\* row of three whose left cell is c
ColumnThrough(c) ==
    {<<(c[1] + 1) % GRID_WIDTH, (c[2] + GRID_HEIGHT + d) % GRID_HEIGHT>> : d \in {-1, 0, 1}}

\* C13: three horizontally adjacent live cells placed anywhere on the
\* otherwise dead grid become, in one execution of update_cells, exactly the
\* vertical column through the middle cell, and that column becomes, in one
\* more execution, exactly the horizontal row again
C13_BlinkerOscillates ==
    gen > 0 =>
        \A c \in Xs \X Ys :
            /\ Alive(initial_state_grid) = Place(Blinker, c[1], c[2])
                  => Alive(state_grid) = ColumnThrough(c)
            /\ Alive(initial_state_grid) = ColumnThrough(c)
                  => Alive(state_grid) = Place(Blinker, c[1], c[2])

\* ------------------------------------------------------------ pause

\* C14: the scheduler starts Paused; the frame's evaluation of the criteria
\* flips the pause flag exactly when Space was just released, and nothing
\* else in a frame changes the flag
C14_SpaceFlipsPause ==
    /\ paused = TRUE
    /\ [][/\ CriteriaStep => (paused' = ~paused <=> space_released)
          /\ ~CriteriaStep => paused' = paused]_vars

\* the simulation was resumed by one Space release and the frame of a later
\* Space release has paused it again
C14_Witness ==
    /\ pc = "systems"
    /\ space_released /\ paused
    /\ step_log # <<>>

\* ------------------------------------------------------------ reset

\* C15: a reset command is available: the frame in which its key was released
\* ends with every cell dead and the scheduler Paused, whatever came before
C15_ResetClearsAndPauses ==
    (FrameComplete /\ other_key_released) => (state_grid = EmptyGrid /\ paused)

\* ------------------------------------------------------------ button up

\* C16: in a frame in which the left button is not held,
\* spawn_cells_with_mouse changes no cell and leaves LastMouseCell alone,
\* wherever the pointer is
C16_NoEditWhileButtonUp ==
    [][(SpawnStep /\ ~left_pressed)
          => (state_grid' = state_grid /\ last_cell' = last_cell)]_vars

\* spawn_cells_with_mouse has run in a frame with the button up and the
\* pointer over a cell that is not LastMouseCell
C16_Witness ==
    /\ "spawn_cells_with_mouse" \in done
    /\ ~left_pressed
    /\ cursor # <<>> /\ InGrid(CursorCell)
    /\ last_cell # CursorCell

\* ------------------------------------------------------------ indices

\* C17: update_cells has no error outcome: for every cell and every offset
\* the sum dx + x as i8 stays within the signed 8-bit range and nx, ny are
\* indices of the grid
C17_StepIndicesInRange ==
    \A k \in 1..8, x \in Xs, y \in Ys :
        /\ NEIGHBORS[k][1] + AsI8(x) \in -128..127
        /\ NEIGHBORS[k][2] + AsI8(y) \in -128..127
        /\ InBounds(state_grid, NeighborX(NEIGHBORS[k][1], x),
                                NeighborY(NEIGHBORS[k][2], y))

\* a step has run on a grid with live cells in the first and in the last
\* column, and every cell has its count
C17_Witness ==
    /\ gen > 0
    /\ \E y \in Ys : initial_state_grid[0][y]
    /\ \E y \in Ys : initial_state_grid[GRID_WIDTH - 1][y]
    /\ \E x \in Xs, y \in Ys : nb[x][y] > 0

\* ------------------------------------------------------------ order in a frame

\* C18: the Space release of a frame is applied before its due-time test: a
\* frame whose release pauses runs no step even when one was due, and a frame
\* whose release resumes runs a step exactly when milis > next_run_time
C18_SpaceBeforeDueTest ==
    [][/\ (CriteriaStep /\ space_released /\ ~paused) => should_run' = "No"
       /\ (CriteriaStep /\ space_released /\ paused)
             => (should_run' = "Yes" <=> milis > next_run_time)
       /\ frames' # frames
             => (should_run = "Yes" <=> "update_cells" \in done)]_vars

\* the first frame resumed and ran a step in that frame; the frame of a later
\* Space release has paused while a step was due, and is over
C18_Witness ==
    /\ FrameComplete
    /\ space_released /\ paused
    /\ milis > next_run_time
    /\ step_log # <<>> /\ step_log[1] = tick_log[1]
    /\ gen = 1

\* ------------------------------------------------------------ spacing

\* C19: two consecutively executed steps are more than SPEED * 1000 ms
\* apart, whatever the pause toggles in between, and a frame executes at most
\* one step
C19_MinimumSpacing ==
    /\ \A i \in 1..(Len(step_log) - 1) :
          step_log[i + 1] - step_log[i] > SPEED_MILLIS
    /\ \A i \in 1..Len(step_log) :
          \E j \in 1..Len(tick_log) : tick_log[j] = step_log[i]
    /\ Len(step_log) <= Len(tick_log)
    /\ Len(step_log) - 1 <= gen /\ gen <= Len(step_log)
    /\ "update_cells" \in done => gen = Len(step_log)

\* three frames, the first and the third of which executed a step
C19_Witness ==
    /\ FrameComplete
    /\ Len(tick_log) = 3
    /\ Len(step_log) = 2 /\ step_log[2] = tick_log[3]
    /\ gen = 2

\* ------------------------------------------------------------ effect of a toggle

\* C20: when spawn_cells_with_mouse toggles with the pointer on a cell
\* (cx, cy) of the grid it inverts that cell, leaves every other cell, the
\* pause flag and next_run_time unchanged and sets LastMouseCell to (cx, cy);
\* update_cells and should_update_run never change LastMouseCell
C20_ToggleFrameEffect ==
    [][/\ (SpawnStep /\ HeldOnCell /\ last_cell # CursorCell) =>
             LET c == CursorCell
             IN  /\ \A x \in Xs, y \in Ys :
                       state_grid'[x][y] =
                           IF <<x, y>> = c THEN ~state_grid[x][y]
                           ELSE state_grid[x][y]
                 /\ last_cell' = c
                 /\ paused' = paused
                 /\ next_run_time' = next_run_time
       /\ (CriteriaStep \/ UpdateCellsStep) => last_cell' = last_cell]_vars

\* a held drag entered a cell that was alive and the toggle has made it dead
C20_Witness ==
    /\ "spawn_cells_with_mouse" \in done
    /\ HeldOnCell
    /\ last_cell = CursorCell
    /\ prev_pressed /\ prev_cursor # <<>>
    /\ InGrid(PrevCursorCell)
    /\ PrevCursorCell # CursorCell
    /\ ~state_grid[CursorCell[1]][CursorCell[2]]
    /\ "update_cells" \notin done /\ gen = 0

====
